---- MODULE Spec2Model ----
(***************************************************************************)
(* A model of the NTSC encoder and decoder of src/src/ntsc.rs,             *)
(* src/src/ntsc/encoder.rs and src/src/ntsc/decoder.rs.                    *)
(*                                                                         *)
(* Numbers.  SignalFloat values are modelled as exact rationals            *)
(* [n, d, pow22]: the value (n/d), raised to the power 2.2 when pow22 is   *)
(* set, and NaN when d = 0.  Rounding of f32 is not modelled.  Time is     *)
(* counted in quarter periods of the colour carrier, so that the carrier's *)
(* sine and cosine take the exact values 0, 1, 0, -1.                      *)
(***************************************************************************)
EXTENDS Integers, Sequences, FiniteSets

VARIABLES
    sample_count,   \* NtscDecoder.sample_count
    sample_queue,   \* NtscDecoder.sample_queue, front first
    pushed,         \* history: every (time, value) given to push_sample, in order
    ret,            \* the decoder's last call and what it returned
    overflow_checks,\* the build's integer overflow checks (debug: on, release: off)
    width,          \* NtscEncoder.width
    height,         \* NtscEncoder.height
    pixel_buffer,   \* NtscEncoder.pixel_buffer: [len, nz], nz the non-zero bytes
    enc             \* the encoder's last call, its outcome and what it read

vars == <<sample_count, sample_queue, pushed, ret, overflow_checks,
          width, height, pixel_buffer, enc>>

decoderVars == <<sample_count, sample_queue, pushed, ret>>

encoderVars == <<overflow_checks, width, height, pixel_buffer, enc>>

(***************************************************************************)
(* Bounds of the model.                                                    *)
(***************************************************************************)
MaxWindow == 3

MaxPushes == 4

\* Sample times given to the decoder, in quarter carrier periods.
SampleTimes == {0, 1, 6}

\* Sample amplitudes given to the decoder.
SampleValues == {0, 1}

(***************************************************************************)
(* SignalFloat arithmetic on exact rationals.                              *)
(***************************************************************************)
Abs(x) == IF x < 0 THEN -x ELSE x

RECURSIVE GCD(_, _)
GCD(a, b) == IF b = 0 THEN a ELSE GCD(b, a % b)

NaN == [n |-> 0, d |-> 0, pow22 |-> FALSE]

IsNaN(x) == x.d = 0

\* The rational n/d in lowest terms with a positive denominator.
Rat(n, d) ==
    IF d = 0 THEN NaN
    ELSE LET g == GCD(Abs(n), Abs(d))
             s == IF d < 0 THEN -1 ELSE 1
         IN [n |-> s * (n \div g), d |-> s * (d \div g), pow22 |-> FALSE]

Flt(k) == Rat(k, 1)

FAdd(a, b) ==
    IF IsNaN(a) \/ IsNaN(b) THEN NaN ELSE Rat(a.n * b.d + b.n * a.d, a.d * b.d)

FSub(a, b) ==
    IF IsNaN(a) \/ IsNaN(b) THEN NaN ELSE Rat(a.n * b.d - b.n * a.d, a.d * b.d)

FMul(a, b) ==
    IF IsNaN(a) \/ IsNaN(b) THEN NaN ELSE Rat(a.n * b.n, a.d * b.d)

\* a / b in f32: 0.0 / 0.0 is NaN (the only division by zero the code reaches).
FDiv(a, b) ==
    IF IsNaN(a) \/ IsNaN(b) \/ b.n = 0 THEN NaN ELSE Rat(a.n * b.d, a.d * b.n)

\* x.powf(2.2): NaN for a negative base, 0 and 1 are fixed, otherwise the
\* irrational value is kept as the marked base.
powf22(x) ==
    IF IsNaN(x) \/ x.n < 0 THEN NaN
    ELSE IF x.n = 0 \/ x.n = x.d THEN x
    ELSE [x EXCEPT !.pow22 = TRUE]

(***************************************************************************)
(* The colour carrier.  generate_color_carrier is imported by decoder.rs   *)
(* from crate::ntsc; it is sin(2 pi f t) in phase and cos(2 pi f t) out of *)
(* phase.  With t in quarter periods these are exact.                      *)
(***************************************************************************)
SinQ(t) == CASE t % 4 = 0 -> 0 [] t % 4 = 1 -> 1 [] t % 4 = 2 -> 0 [] OTHER -> -1

CosQ(t) == CASE t % 4 = 0 -> 1 [] t % 4 = 1 -> 0 [] t % 4 = 2 -> -1 [] OTHER -> 0

generate_color_carrier(time, in_phase) == IF in_phase THEN SinQ(time) ELSE CosQ(time)

(***************************************************************************)
(* NtscDecoder                                                             *)
(***************************************************************************)
Black == <<Flt(0), Flt(0), Flt(0)>>

\* while self.sample_queue.len() > self.sample_count { pop_front() }
RECURSIVE evict(_, _)
evict(q, n) == IF Len(q) > n THEN evict(Tail(q), n) ELSE q

\* Faulty variants of push_sample: one drops the newest samples, one never
\* evicts.
EvictNewest(q, n) == IF Len(q) > n THEN SubSeq(q, 1, n) ELSE q

PushNoEvict(q, n, time, value) == Append(q, <<time, value>>)

PushEvictNewest(q, n, time, value) == EvictNewest(Append(q, <<time, value>>), n)

push_sample(q, n, time, value) == evict(Append(q, <<time, value>>), n)

RECURSIVE SumY(_)
SumY(q) == IF q = <<>> THEN 0 ELSE q[1][2] + SumY(Tail(q))

RECURSIVE SumC(_, _)
SumC(q, in_phase) ==
    IF q = <<>> THEN 0
    ELSE q[1][2] * generate_color_carrier(q[1][1], in_phase) + SumC(Tail(q), in_phase)

yiq_to_rgb(yiq) ==
    LET y == yiq[1]
        i == yiq[2]
        q == yiq[3]
    IN << FAdd(FAdd(y, FMul(Rat(9469, 10000), i)), FMul(Rat(6236, 10000), q)),
          FSub(FSub(y, FMul(Rat(2748, 10000), i)), FMul(Rat(6357, 10000), q)),
          FAdd(FSub(y, FMul(Rat(11, 10), i)), FMul(Rat(17, 10), q)) >>

srgb_to_rgb(c) == <<powf22(c[1]), powf22(c[2]), powf22(c[3])>>

\* A faulty variant of the demodulation: the chroma is not scaled by 4.
DemodulateUnscaled(q, n) ==
    << FDiv(Flt(SumY(q)), Flt(n)),
       FDiv(Flt(SumC(q, TRUE)), Flt(n)),
       FDiv(Flt(SumC(q, FALSE)), Flt(n)) >>

\* The accumulation loop and the scaling of decode: (y, i, q).
demodulate(q, n) ==
    << FDiv(Flt(SumY(q)), Flt(n)),
       FMul(FDiv(Flt(SumC(q, TRUE)), Flt(n)), Flt(4)),
       FMul(FDiv(Flt(SumC(q, FALSE)), Flt(n)), Flt(4)) >>

\* A faulty variant of decode: it demodulates any non-empty window.
DecodeNonEmpty(q, n, srgb) ==
    IF Len(q) > 0
    THEN LET color == yiq_to_rgb(demodulate(q, Len(q)))
         IN [demodulated |-> TRUE,
             color |-> IF srgb THEN srgb_to_rgb(color) ELSE color]
    ELSE [demodulated |-> FALSE, color |-> Black]

\* decode: which branch was taken, and the colour returned.
decode(q, n, srgb) ==
    IF Len(q) = n
    THEN LET color == yiq_to_rgb(demodulate(q, n))
         IN [demodulated |-> TRUE,
             color |-> IF srgb THEN srgb_to_rgb(color) ELSE color]
    ELSE [demodulated |-> FALSE, color |-> Black]

NoColor == [demodulated |-> FALSE, color |-> Black]

NtscDecoder_new(n) ==
    /\ sample_count = n
    /\ sample_queue = <<>>
    /\ pushed = <<>>
    /\ ret = [op |-> "new", srgb |-> FALSE, out |-> NoColor]

PushSample(time, value) ==
    /\ Len(pushed) < MaxPushes
    /\ sample_queue' = push_sample(sample_queue, sample_count, time, value)
    /\ pushed' = Append(pushed, <<time, value>>)
    /\ ret' = [op |-> "push_sample", srgb |-> FALSE, out |-> NoColor]
    /\ UNCHANGED sample_count
    /\ UNCHANGED encoderVars

\* A faulty variant of Decode: it consumes the oldest sample.
DecodeAndPop(srgb) ==
    /\ ret' = [op |-> "decode", srgb |-> srgb,
               out |-> decode(sample_queue, sample_count, srgb)]
    /\ sample_queue' = IF sample_queue = <<>> THEN <<>> ELSE Tail(sample_queue)
    /\ UNCHANGED <<sample_count, pushed>>
    /\ UNCHANGED encoderVars

Decode(srgb) ==
    /\ ret' = [op |-> "decode", srgb |-> srgb,
               out |-> decode(sample_queue, sample_count, srgb)]
    /\ UNCHANGED <<sample_count, sample_queue, pushed>>
    /\ UNCHANGED encoderVars

(***************************************************************************)
(* NtscEncoder                                                             *)
(*                                                                         *)
(* pixel_buffer is [len, nz]: a Vec<u8> of len bytes, byte k being nz[k]   *)
(* where nz is defined and 0 elsewhere.  A panic ends the program: the     *)
(* call's outcome is kept in enc and nothing is enabled after it.          *)
(***************************************************************************)
\* The number of values of a u32.  TLC's integers are 32 bits wide, so the
\* word is modelled 16 bits wide: a product wraps at 2^16 here where the
\* code's wraps at 2^32, and the sides that overflow are 2^7 and 2^8 where
\* the code's are 2^15 and 2^16.
U32 == 65536

\* ntsc.rs: the scanline count, and the scanline period (64e-6 s) counted
\* in the model's time unit.
NTSC_SCANLINE_COUNT == 525

TicksPerLine == 5

NTSC_SCANLINE_PERIOD == TicksPerLine

NTSC_IMAGE_PERIOD == NTSC_SCANLINE_PERIOD * NTSC_SCANLINE_COUNT

\* Raster sides given to new, and the largest side of a decoded image.
MaxImageSide == 2

NewSides == {0, 1, 2, 128, 256, 257}

\* Pixel colours of decoded images (r, g, b, a).
ImageColors == { <<255, 0, 0, 255>>, <<255, 255, 255, 255>> }

\* Times given to sample: every tick of a few scanlines of four frames,
\* two of them before time 0.
SampledLines == {0, 263, 524}

EncoderTimes ==
    { f * NTSC_IMAGE_PERIOD + l * NTSC_SCANLINE_PERIOD + k :
        f \in -2..1, l \in SampledLines, k \in 0..(NTSC_SCANLINE_PERIOD - 1) }

\* Normalized coordinates given to sample_pixel, as <<numerator, denominator>>.
PixelCoords == { <<-1, 2>>, <<1, 2>>, <<2, 2>>, <<3, 2>> }

\* a % b on floats (b > 0): the remainder of the truncated division, which
\* has the sign of a.
FRem(a, b) == IF a >= 0 THEN a % b ELSE -((-a) % b)

\* (num / den) as u32, den > 0: truncates toward zero and saturates.
AsU32(num, den) ==
    IF num <= 0 THEN 0
    ELSE IF num \div den >= U32 THEN U32 - 1 ELSE num \div den

\* A u32 operation with mathematical result v: a panic when the build checks
\* overflow, the wrapped value otherwise.
Overflows(v) == overflow_checks /\ v >= U32

Wrap(v) == v % U32

clamp(v, lo, hi) == IF v < lo THEN lo ELSE IF v > hi THEN hi ELSE v

ByteAt(k) == IF k \in DOMAIN pixel_buffer.nz THEN pixel_buffer.nz[k] ELSE 0

NoRgb == <<Flt(0), Flt(0), Flt(0)>>

rgba8_to_rgbf(px) == <<Rat(px[1], 255), Rat(px[2], 255), Rat(px[3], 255)>>

srgb_to_yiq(rgb) ==
    LET r == rgb[1]
        g == rgb[2]
        b == rgb[3]
        y == FAdd(FAdd(FMul(Rat(3, 10), r), FMul(Rat(59, 100), g)),
                  FMul(Rat(11, 100), b))
        i == FAdd(FMul(Rat(-27, 100), FSub(b, y)), FMul(Rat(74, 100), FSub(r, y)))
        q == FAdd(FMul(Rat(41, 100), FSub(b, y)), FMul(Rat(48, 100), FSub(r, y)))
    IN <<y, i, q>>

PixelPanic == [status |-> "panic", byte |-> 0, px |-> <<0, 0, 0, 0>>]

sample_index(idx) ==
    IF Overflows(idx * 4) THEN PixelPanic
    ELSE IF pixel_buffer.len = 0 THEN PixelPanic
    ELSE LET i == Wrap(idx * 4) % pixel_buffer.len
         IN IF i + 4 > pixel_buffer.len THEN PixelPanic
            ELSE [status |-> "ok", byte |-> i,
                  px |-> <<ByteAt(i), ByteAt(i + 1), ByteAt(i + 2), ByteAt(i + 3)>>]

\* sample_pixel at x = xq[1]/xq[2], y = yq[1]/yq[2].
sample_pixel(xq, yq) ==
    LET x == clamp(AsU32(xq[1] * width, xq[2]), 0, width)
        y == clamp(AsU32(yq[1] * height, yq[2]), 0, height)
        read == sample_index(Wrap(Wrap(y * width) + x))
    IN IF Overflows(y * width) \/ Overflows(Wrap(y * width) + x)
       THEN [status |-> "panic", col |-> x, row |-> y, byte |-> 0, rgb |-> NoRgb]
       ELSE [status |-> read.status, col |-> x, row |-> y, byte |-> read.byte,
             rgb |-> rgba8_to_rgbf(read.px)]

sample(t) ==
    LET time == FRem(t, NTSC_IMAGE_PERIOD)
        scanline == AsU32(time, NTSC_SCANLINE_PERIOD)
        x == <<FRem(time, NTSC_SCANLINE_PERIOD), NTSC_SCANLINE_PERIOD>>
        y == <<scanline, NTSC_SCANLINE_COUNT>>
        pixel == sample_pixel(x, y)
        yiq == srgb_to_yiq(pixel.rgb)
        amp == FAdd(FAdd(yiq[1], FMul(yiq[2], Flt(SinQ(time)))),
                    FMul(yiq[3], Flt(CosQ(time))))
    IN [status |-> pixel.status, time |-> time, col |-> pixel.col,
        row |-> pixel.row, byte |-> pixel.byte, rgb |-> pixel.rgb,
        amp |-> IF pixel.status = "ok" THEN amp ELSE Flt(0)]

Outcome(ctor, op, arg, status, o) ==
    [ctor |-> ctor, op |-> op, arg |-> arg, status |-> status,
     time |-> o.time, col |-> o.col, row |-> o.row, byte |-> o.byte,
     rgb |-> o.rgb, amp |-> o.amp]

NoRead == [time |-> 0, col |-> 0, row |-> 0, byte |-> 0, rgb |-> NoRgb, amp |-> Flt(0)]

\* NtscEncoder::new(w, h): vec![0; (w * h * 4) as usize].
NtscEncoder_new(w, h) ==
    /\ width = w
    /\ height = h
    /\ IF Overflows(w * h) \/ Overflows(Wrap(w * h) * 4)
       THEN /\ pixel_buffer = [len |-> 0, nz |-> <<>>]
            /\ enc = Outcome("new", "new", <<w, h>>, "panic", NoRead)
       ELSE /\ pixel_buffer = [len |-> Wrap(Wrap(w * h) * 4), nz |-> <<>>]
            /\ enc = Outcome("new", "new", <<w, h>>, "ok", NoRead)

\* The rgba8 bytes of a w x h image whose pixel p has colour c and whose
\* other pixels are zero.
ImageBytes(p, c) == [k \in (4 * p)..(4 * p + 3) |-> c[k - 4 * p + 1]]

\* NtscEncoder::from_image_buf(buf): Err when buf does not decode, and
\* otherwise new(img.width(), img.height()) with the image's bytes.
NtscEncoder_from_image_buf(decodes, w, h, p, c) ==
    /\ width = w
    /\ height = h
    /\ IF decodes
       THEN /\ pixel_buffer = [len |-> w * h * 4, nz |-> ImageBytes(p, c)]
            /\ enc = Outcome("from_image_buf", "from_image_buf", <<w, h>>, "ok", NoRead)
       ELSE /\ pixel_buffer = [len |-> 0, nz |-> <<>>]
            /\ enc = Outcome("from_image_buf", "from_image_buf", <<w, h>>, "err", NoRead)

Sample(t) ==
    /\ enc.status = "ok"
    /\ enc' = LET o == sample(t) IN Outcome(enc.ctor, "sample", <<t>>, o.status, o)
    /\ UNCHANGED <<overflow_checks, width, height, pixel_buffer>>
    /\ UNCHANGED decoderVars

SamplePixel(xq, yq) ==
    /\ enc.status = "ok"
    /\ enc' = LET o == sample_pixel(xq, yq)
              IN Outcome(enc.ctor, "sample_pixel", <<xq, yq>>, o.status,
                         [time |-> 0, col |-> o.col, row |-> o.row,
                          byte |-> o.byte, rgb |-> o.rgb, amp |-> Flt(0)])
    /\ UNCHANGED <<overflow_checks, width, height, pixel_buffer>>
    /\ UNCHANGED decoderVars

EncoderIdle ==
    /\ overflow_checks = FALSE
    /\ NtscEncoder_new(1, 1)

DecoderIdle == NtscDecoder_new(1)

EncoderInit ==
    /\ overflow_checks \in BOOLEAN
    /\ \/ \E w \in NewSides, h \in NewSides : NtscEncoder_new(w, h)
       \/ \E w \in 1..MaxImageSide, h \in 1..MaxImageSide :
             \E p \in 0..(w * h - 1), c \in ImageColors :
                NtscEncoder_from_image_buf(TRUE, w, h, p, c)
       \/ NtscEncoder_from_image_buf(FALSE, 0, 0, 0, <<0, 0, 0, 0>>)
    /\ DecoderIdle

EncoderNext ==
    \/ \E t \in EncoderTimes : Sample(t)
    \/ \E xq \in PixelCoords, yq \in PixelCoords : SamplePixel(xq, yq)

SpecEncoder == EncoderInit /\ [][EncoderNext]_vars

DecoderInit ==
    /\ \E n \in 0..MaxWindow : NtscDecoder_new(n)
    /\ EncoderIdle

DecoderNext ==
    \/ \E time \in SampleTimes, value \in SampleValues : PushSample(time, value)
    \/ \E srgb \in BOOLEAN : Decode(srgb)

SpecDecoder == DecoderInit /\ [][DecoderNext]_vars

(***************************************************************************)
(* Properties of the decoder, checked under SpecDecoder.                   *)
(***************************************************************************)
Min(a, b) == IF a < b THEN a ELSE b

\* The last k elements of s (all of s when it has fewer).
LastN(s, k) == SubSeq(s, Len(s) - Min(k, Len(s)) + 1, Len(s))

\* C1: the window never holds more than sample_count samples; after every
\* call its length is min(sample_count, number of pushes so far).
C1_WindowLength ==
    /\ Len(sample_queue) <= sample_count
    /\ Len(sample_queue) = Min(sample_count, Len(pushed))

\* A push into a full, non-empty window has evicted a sample.
C1_Witness ==
    /\ ret.op = "push_sample"
    /\ sample_count >= 1
    /\ Len(pushed) > sample_count
    /\ Len(sample_queue) = sample_count

\* C2: once window_size + k samples have been pushed (k >= 0), the window
\* is exactly the last window_size pushed pairs, in push order, oldest first.
C2_WindowIsSuffix ==
    Len(pushed) >= sample_count => sample_queue = LastN(pushed, sample_count)

\* More pushes than the window holds, of samples that differ from each
\* other, so that a lost, extra or reordered sample would show.
C2_Witness ==
    /\ ret.op = "push_sample"
    /\ sample_count >= 2
    /\ Len(pushed) > sample_count
    /\ sample_queue[1] # sample_queue[2]
    /\ pushed[1] # sample_queue[1]
    /\ sample_queue = LastN(pushed, sample_count)

\* C3: decode returns the sentinel black while fewer than sample_count
\* samples have been pushed, and takes the demodulation branch in every
\* decode from the sample_count-th push on.
C3_WarmUp ==
    ret.op = "decode" =>
        IF Len(pushed) < sample_count
        THEN ~ret.out.demodulated /\ ret.out.color = Black
        ELSE ret.out.demodulated

\* A decode after the window filled and went on sliding.
C3_Witness ==
    /\ ret.op = "decode"
    /\ sample_count >= 2
    /\ Len(pushed) > sample_count
    /\ ret.out.demodulated

\* C7 as stated: a window of one sample (time, amplitude) decodes to luma
\* amplitude with zero chroma, the output without gamma being
\* (amplitude, amplitude, amplitude).
C7_ZeroChroma ==
    (ret.op = "decode" /\ sample_count = 1 /\ Len(sample_queue) = 1) =>
        LET a == sample_queue[1][2]
            yiq == demodulate(sample_queue, sample_count)
        IN /\ yiq = <<Flt(a), Flt(0), Flt(0)>>
           /\ ~ret.srgb => ret.out.color = <<Flt(a), Flt(a), Flt(a)>>

\* C7 amended: a window of one sample (time, amplitude) decodes to luma
\* amplitude and chroma I = 4 * amplitude * carrier(time, in phase),
\* Q = 4 * amplitude * carrier(time, out of phase); the output without
\* gamma is yiq_to_rgb of that triple, and it is (amplitude, amplitude,
\* amplitude), with zero chroma, exactly when amplitude is 0.
C7_CarrierChroma ==
    (ret.op = "decode" /\ sample_count = 1 /\ Len(sample_queue) = 1) =>
        LET t == sample_queue[1][1]
            a == sample_queue[1][2]
            yiq == demodulate(sample_queue, sample_count)
            expected == << Flt(a),
                           Flt(4 * a * generate_color_carrier(t, TRUE)),
                           Flt(4 * a * generate_color_carrier(t, FALSE)) >>
        IN /\ ret.out.demodulated
           /\ yiq = expected
           /\ ~ret.srgb => ret.out.color = yiq_to_rgb(expected)
           /\ (yiq[2] = Flt(0) /\ yiq[3] = Flt(0)) <=> a = 0
           /\ ~ret.srgb => (ret.out.color = <<Flt(a), Flt(a), Flt(a)>> <=> a = 0)

\* A window of one holding a non-zero sample has been decoded without gamma.
C7_Witness ==
    /\ ret.op = "decode"
    /\ ~ret.srgb
    /\ sample_count = 1
    /\ Len(sample_queue) = 1
    /\ sample_queue[1][2] # 0
    /\ ret.out.demodulated

\* C10: decode changes neither the window nor sample_count, so a decode
\* that follows a decode with the same flag returns the same colour, and
\* what a decode returned is what decoding again would return;
\* push_sample never changes sample_count.
C10_DecodeIsPure ==
    [][ /\ sample_count' = sample_count
        /\ ret'.op = "decode" => sample_queue' = sample_queue
        /\ (ret.op = "decode" /\ ret'.op = "decode" /\ ret'.srgb = ret.srgb)
               => ret'.out = ret.out
        /\ ret'.op = "decode"
               => ret'.out = decode(sample_queue', sample_count', ret'.srgb) ]_vars

\* A decode of a full window of at least two samples, which is still there.
C10_Witness ==
    /\ ret.op = "decode"
    /\ sample_count >= 2
    /\ Len(sample_queue) = sample_count
    /\ ret.out = decode(sample_queue, sample_count, ret.srgb)
    /\ ret.out.demodulated

(***************************************************************************)
(* Properties of the encoder, checked under SpecEncoder.                   *)
(***************************************************************************)
\* The buffer is as long as the raster: no size computation wrapped.
WholeRaster == pixel_buffer.len = width * height * 4

\* The rgba8 bytes of the pixel at column col of row row.
PixelAt(col, row) ==
    LET k == (row * width + col) * 4
    IN <<ByteAt(k), ByteAt(k + 1), ByteAt(k + 2), ByteAt(k + 3)>>

\* The pixels with a non-zero red, green or blue byte.
NonBlackPixels ==
    { k \div 4 : k \in { b \in DOMAIN pixel_buffer.nz :
                           b % 4 # 3 /\ pixel_buffer.nz[b] # 0 } }

\* The (column, row) the stated mapping selects at time t, with mod and
\* floor read mathematically.
MappedPixel(t) ==
    LET time == t % NTSC_IMAGE_PERIOD
        scanline == time \div NTSC_SCANLINE_PERIOD
    IN << ((time % NTSC_SCANLINE_PERIOD) * width) \div NTSC_SCANLINE_PERIOD,
          (scanline * height) \div NTSC_SCANLINE_COUNT >>

\* The same mapping with mod read as the remainder that keeps t's sign.
MappedPixelSigned(t) ==
    LET time == FRem(t, NTSC_IMAGE_PERIOD)
        scanline == time \div NTSC_SCANLINE_PERIOD
    IN << (FRem(time, NTSC_SCANLINE_PERIOD) * width) \div NTSC_SCANLINE_PERIOD,
          (scanline * height) \div NTSC_SCANLINE_COUNT >>

\* C4: sample_pixel at (1.0, 1.0) or beyond reads inside the buffer and
\* returns the pixel of row height-1, column width-1.
C4_ClampToLastPixel ==
    ( /\ enc.op = "sample_pixel"
      /\ enc.arg[1][1] >= enc.arg[1][2]
      /\ enc.arg[2][1] >= enc.arg[2][2]
      /\ width >= 1 /\ height >= 1 /\ WholeRaster ) =>
        /\ enc.status = "ok"
        /\ enc.byte + 4 <= pixel_buffer.len
        /\ enc.rgb = rgba8_to_rgbf(PixelAt(width - 1, height - 1))

\* C5: sample and sample_pixel never fail at run time, on any encoder that
\* new or from_image_buf returned and at any time: the four bytes read lie
\* in the buffer, nothing divides by zero, nothing overflows.
C5_NoRuntimeFailure ==
    enc.op \in {"sample", "sample_pixel"} =>
        /\ enc.status = "ok"
        /\ enc.byte + 4 <= pixel_buffer.len

\* C6: sample(t) and sample(t + NTSC_IMAGE_PERIOD) read the same pixel,
\* evaluate the carrier at the same reduced time and return the same
\* amplitude, for t of either sign.
C6_FramePeriodic ==
    (enc.op = "sample" /\ enc.status = "ok") =>
        LET later == sample(enc.arg[1] + NTSC_IMAGE_PERIOD)
        IN /\ later.status = "ok"
           /\ later.byte = enc.byte
           /\ later.time = enc.time
           /\ later.amp = enc.amp

\* C8: new(width, height) succeeds for all sides and its buffer is all zero
\* and width * height * 4 bytes long, then and after every sample.
C8_BufferLength ==
    enc.ctor = "new" =>
        /\ enc.op = "new" => enc.status = "ok"
        /\ pixel_buffer.len = width * height * 4
        /\ DOMAIN pixel_buffer.nz = {}

\* C9: with a single non-black pixel at (c, r), sample(t) is zero at every
\* time t that the stated mapping sends to another pixel (under either
\* reading of mod).
C9_PixelLocal ==
    ( /\ enc.op = "sample"
      /\ enc.status = "ok"
      /\ WholeRaster
      /\ Cardinality(NonBlackPixels) = 1 ) =>
        LET p == CHOOSE k \in NonBlackPixels : TRUE
            lit == <<p % width, p \div width>>
        IN (MappedPixel(enc.arg[1]) # lit /\ MappedPixelSigned(enc.arg[1]) # lit)
               => enc.amp = Flt(0)

====
